---- MODULE Spec2Model ----
(***************************************************************************)
(* Model of the streaming multipart/form-data encoder                      *)
(* (src/src/encoding.rs, reader_stream.rs, part.rs, multipart.rs) and of   *)
(* the buffering Multipart of src/src/lib.rs.                              *)
(*                                                                         *)
(* Bytes are integers 0..255 and byte strings are sequences of them.       *)
(* The specifications share the state and the stepping actions:            *)
(*   Spec      a Multipart is built with add_* and then materialized;      *)
(*   SpecTest  the same, with the boundary the tests write;                *)
(*   SpecPart  a single Part is constructed and then materialized;         *)
(*   SpecLib   the Multipart of lib.rs is built and set on a request.      *)
(***************************************************************************)
EXTENDS Integers, Sequences, FiniteSets

(* ---------------------------------------------------------------------- *)
(* Bounds of the model                                                    *)
(* ---------------------------------------------------------------------- *)
\* longest payload of a part
MaxLen == 3
\* most parts added to one Multipart
MaxParts == 2
\* largest explicit chunk-size hint Some(h) passed to into_stream / into_reader
MaxHint == 2
\* most consecutive read failures a byte source reports
MaxErrs == 1
\* largest of the small destination buffers a consumer hands to poll_read
MaxDest == 2
\* the large destination buffer a consumer hands to poll_read
BigDest == 32

(* ---------------------------------------------------------------------- *)
(* Byte strings                                                           *)
(* ---------------------------------------------------------------------- *)
None == -1

Min(a, b) == IF a < b THEN a ELSE b

CRLF == <<13, 10>>
\* "--"
Dashes == <<45, 45>>
\* "\""
Quote == <<34>>
\* "Content-Disposition: form-data; name=\""
DispositionPrefix ==
    <<67, 111, 110, 116, 101, 110, 116, 45, 68, 105, 115, 112, 111, 115, 105,
      116, 105, 111, 110, 58, 32, 102, 111, 114, 109, 45, 100, 97, 116, 97,
      59, 32, 110, 97, 109, 101, 61, 34>>
\* "; filename=\""
FilenamePrefix == <<59, 32, 102, 105, 108, 101, 110, 97, 109, 101, 61, 34>>
\* "Content-Type: "
ContentTypePrefix ==
    <<67, 111, 110, 116, 101, 110, 116, 45, 84, 121, 112, 101, 58, 32>>
\* "Content-Transfer-Encoding: "
TransferEncodingPrefix ==
    <<67, 111, 110, 116, 101, 110, 116, 45, 84, 114, 97, 110, 115, 102, 101,
      114, 45, 69, 110, 99, 111, 100, 105, 110, 103, 58, 32>>
\* "multipart/form-data; boundary="
MultipartFormData ==
    <<109, 117, 108, 116, 105, 112, 97, 114, 116, 47, 102, 111, 114, 109, 45,
      100, 97, 116, 97, 59, 32, 98, 111, 117, 110, 100, 97, 114, 121, 61>>
\* "text/plain"
TextPlain == <<116, 101, 120, 116, 47, 112, 108, 97, 105, 110>>

RECURSIVE Flatten(_)
\* concatenation of a sequence of byte strings
Flatten(ss) == IF ss = <<>> THEN <<>> ELSE Head(ss) \o Flatten(Tail(ss))

\* the decimal digits of n, as usize::to_string writes them
RECURSIVE to_string(_)
to_string(n) == IF n < 10 THEN <<48 + n>> ELSE to_string(n \div 10) \o <<48 + (n % 10)>>

(* ---------------------------------------------------------------------- *)
(* Encoding (encoding.rs)                                                 *)
(* ---------------------------------------------------------------------- *)
Encodings == {"SevenBit", "EightBit", "Base64", "QuotedPrintable"}
OptEncodings == Encodings \cup {"NoEncoding"}

\* Encoding::to_str
to_str(enc) ==
    CASE enc = "SevenBit" -> <<55, 98, 105, 116>>
      [] enc = "EightBit" -> <<56, 98, 105, 116>>
      [] enc = "Base64" -> <<98, 97, 115, 101, 54, 52>>
      [] enc = "QuotedPrintable" ->
            <<113, 117, 111, 116, 101, 100, 45, 112, 114, 105, 110, 116, 97,
              98, 108, 101>>

\* the standard base64 alphabet: symbol of a 6-bit value
B64Sym(v) ==
    IF v < 26 THEN 65 + v
    ELSE IF v < 52 THEN 97 + (v - 26)
    ELSE IF v < 62 THEN 48 + (v - 52)
    ELSE IF v = 62 THEN 43 ELSE 47

\* base64 of a byte string; pad says whether '=' fills the last group
RECURSIVE B64(_, _)
B64(s, pad) ==
    IF Len(s) = 0 THEN <<>>
    ELSE IF Len(s) = 1 THEN
        <<B64Sym(s[1] \div 4), B64Sym((s[1] % 4) * 16)>>
            \o (IF pad THEN <<61, 61>> ELSE <<>>)
    ELSE IF Len(s) = 2 THEN
        <<B64Sym(s[1] \div 4),
          B64Sym((s[1] % 4) * 16 + s[2] \div 16),
          B64Sym((s[2] % 16) * 4)>>
            \o (IF pad THEN <<61>> ELSE <<>>)
    ELSE
        <<B64Sym(s[1] \div 4),
          B64Sym((s[1] % 4) * 16 + s[2] \div 16),
          B64Sym((s[2] % 16) * 4 + s[3] \div 64),
          B64Sym(s[3] % 64)>>
            \o B64(SubSeq(s, 4, Len(s)), pad)

\* base64::engine::general_purpose::STANDARD_NO_PAD.encode
Base64NoPad(s) == B64(s, FALSE)
\* base64::engine::general_purpose::STANDARD.encode
Base64Standard(s) == B64(s, TRUE)

\* an upper-case hexadecimal digit
HexDigit(d) == IF d < 10 THEN 48 + d ELSE 55 + d

\* quoted_printable: the longest encoded line
LINE_LENGTH_LIMIT == 76

\* quoted_printable append: st = [on_line, out, backup_pos]
QPAppend(st, chars) ==
    LET broken ==
            IF st.on_line + Len(chars) > LINE_LENGTH_LIMIT THEN
                IF st.on_line = LINE_LENGTH_LIMIT THEN
                    [on_line |-> Len(st.out) - st.backup_pos,
                     out |-> SubSeq(st.out, 1, st.backup_pos) \o <<61, 13, 10>>
                                \o SubSeq(st.out, st.backup_pos + 1, Len(st.out)),
                     backup_pos |-> st.backup_pos]
                ELSE
                    [on_line |-> 0,
                     out |-> st.out \o <<61, 13, 10>>,
                     backup_pos |-> st.backup_pos]
            ELSE st
    IN [on_line |-> broken.on_line + Len(chars),
        out |-> broken.out \o chars,
        backup_pos |-> Len(broken.out)]

\* quoted_printable encode_byte
QPEncodeByte(st, b) ==
    IF b = 61 THEN QPAppend(st, <<61, 51, 68>>)
    ELSE IF b = 9 \/ (b >= 32 /\ b <= 126) THEN QPAppend(st, <<b>>)
    ELSE QPAppend(st, <<61, HexDigit(b \div 16), HexDigit(b % 16)>>)

\* quoted_printable encode loop from byte i on; was_cr: a CR is held back
RECURSIVE QPLoop(_, _, _, _)
QPLoop(s, i, st, was_cr) ==
    IF i > Len(s) THEN
        (IF was_cr THEN QPAppend(st, <<61, 48, 68>>) ELSE st).out
    ELSE IF was_cr /\ s[i] = 10 THEN
        QPLoop(s, i + 1,
               [on_line |-> 0, out |-> st.out \o CRLF, backup_pos |-> st.backup_pos],
               FALSE)
    ELSE
        LET st1 == IF was_cr THEN QPAppend(st, <<61, 48, 68>>) ELSE st IN
        IF s[i] = 13 THEN QPLoop(s, i + 1, st1, TRUE)
        ELSE QPLoop(s, i + 1, QPEncodeByte(st1, s[i]), FALSE)

\* quoted_printable::encode
QuotedPrintable(s) ==
    QPLoop(s, 1, [on_line |-> 0, out |-> <<>>, backup_pos |-> 0], FALSE)

\* Encoding::encode
encode(enc, input) ==
    CASE enc = "Base64" -> Base64NoPad(input)
      [] enc = "QuotedPrintable" -> QuotedPrintable(input)
      [] OTHER -> input

(* ---------------------------------------------------------------------- *)
(* Part (part.rs)                                                         *)
(* ---------------------------------------------------------------------- *)
\* Option<Cow<str>> of Part::file_data
NoFile == [v |-> <<>>, some |-> FALSE]
SomeFile(f) == [v |-> f, some |-> TRUE]

\* a parsed Mime: essence_str() and the text Display writes
Mime(essence, source) == [essence |-> essence, source |-> source]
MimeTextPlain == Mime(TextPlain, TextPlain)

\* is_token: the tchar of RFC 7230, ALPHA / DIGIT and ! # $ % & ' * + - . ^ _ ` | ~
TokenChar(c) ==
    c \in (48..57) \cup (65..90) \cup (97..122)
            \cup {33, 35, 36, 37, 38, 39, 42, 43, 45, 46, 94, 95, 96, 124, 126}
\* the place of the first byte from i on that is no token character,
\* Len(s) + 1 when every byte from i on is one
RECURSIVE TokenEnd(_, _)
TokenEnd(s, i) == IF i <= Len(s) /\ TokenChar(s[i]) THEN TokenEnd(s, i + 1) ELSE i
IsToken(s) == s # <<>> /\ TokenEnd(s, 1) > Len(s)
\* is_restricted_quoted_char: what may stand between the quotes of a value
QuotedChar(c) == c = 9 \/ (c > 31 /\ c # 127)
\* the place of the quote that closes a quoted value whose text starts at
\* `start`: the first quote after `start`, 0 when a byte before it may not be
\* quoted or the string ends first
RECURSIVE QuoteEnd(_, _, _)
QuoteEnd(s, start, i) ==
    IF i > Len(s) THEN 0
    ELSE IF s[i] = 34 /\ i > start THEN i
    ELSE IF QuotedChar(s[i]) THEN QuoteEnd(s, start, i + 1)
    ELSE 0
\* the place after the spaces that follow a quoted value and the `;` that ends
\* them, Len(s) + 1 at the end of the string, 0 at any other byte
RECURSIVE AfterQuoted(_, _)
AfterQuoted(s, i) ==
    IF i > Len(s) THEN Len(s) + 1
    ELSE IF s[i] = 59 THEN i + 1
    ELSE IF s[i] = 32 THEN AfterQuoted(s, i + 1)
    ELSE 0
\* the place of the first c in s, Len(s) + 1 when there is none
IndexOf(s, c) ==
    IF \E i \in DOMAIN s : s[i] = c
    THEN CHOOSE i \in DOMAIN s : s[i] = c /\ \A j \in 1..(i - 1) : s[j] # c
    ELSE Len(s) + 1
Lower(c) == IF c \in 65..90 THEN c + 32 ELSE c
LowerAll(s) == [i \in DOMAIN s |-> Lower(s[i])]
Charset == <<99, 104, 97, 114, 115, 101, 116>>

\* what params_from_str finds from `start` on: whether the text is a list of
\* parameters, whether it holds any, and the places the Mime keeps in lower case
Params(ok, any, lower) == [ok |-> ok, any |-> any, lower |-> lower]
\* params_from_str: `name=value` separated by `;`. A space where a name would
\* start is skipped; a name is a token that `=` ends; a value is a token that
\* `;` or the end of the string ends, or a quoted text, after which spaces may
\* precede the `;`. Names are kept in lower case, and so is the value of charset
RECURSIVE params_from_str(_, _)
params_from_str(s, start) ==
    IF start > Len(s) THEN Params(TRUE, FALSE, {})
    ELSE IF s[start] = 32 THEN params_from_str(s, start + 1)
    ELSE
        LET eq == TokenEnd(s, start)
            value == eq + 1
            quoted == value <= Len(s) /\ s[value] = 34
            close == IF quoted THEN QuoteEnd(s, value + 1, value + 1)
                     ELSE TokenEnd(s, value)
            from == IF quoted THEN value + 1 ELSE value
            next == IF quoted THEN AfterQuoted(s, close + 1)
                    ELSE IF close > Len(s) THEN close
                    ELSE close + 1
            named == eq <= Len(s) /\ s[eq] = 61 /\ eq > start
            valued == IF quoted THEN close # 0 /\ next # 0
                      ELSE close > Len(s) \/ (s[close] = 59 /\ close > value)
            rest == params_from_str(s, next)
            kept == IF LowerAll(SubSeq(s, start, eq - 1)) = Charset
                    THEN start..(close - 1)
                    ELSE start..(eq - 1)
        IN IF named /\ valued
           THEN Params(rest.ok, TRUE, kept \cup rest.lower)
           ELSE Params(FALSE, FALSE, {})

\* str::parse::<Mime>(): a type that is a token, `/`, a subtype of token
\* characters that may be empty, then either the end of the string or, after
\* a subtype that is not empty, `;` and the parameters. ok tells whether the
\* string parses. The Mime keeps the text in lower case, without a `;` that no
\* parameter follows; Display writes that text and essence_str is the part of
\* it before the `;`
parse(s) ==
    LET slash == TokenEnd(s, 1)
        start == slash + 1
        semi == TokenEnd(s, start)
        top == slash > 1 /\ slash <= Len(s) /\ s[slash] = 47
        params == params_from_str(s, semi + 1)
        ok == /\ top
              /\ \/ semi > Len(s)
                 \/ s[semi] = 59 /\ semi > start /\ params.ok
        source == IF semi > Len(s) THEN LowerAll(s)
                  ELSE IF ~params.any THEN LowerAll(SubSeq(s, 1, semi - 1))
                  ELSE [i \in DOMAIN s |->
                            IF i < semi \/ i \in params.lower THEN Lower(s[i])
                            ELSE s[i]]
        essence == SubSeq(source, 1, semi - 1)
    IN [ok |-> ok, mime |-> IF ok THEN Mime(essence, source) ELSE MimeTextPlain]

\* how the reader of a Body answers poll_read: at most `cap` bytes per read
\* (0: as many as asked), and failing from its read number `fail_at` on, MaxErrs
\* times (0: never)
Behaviour(cap, fail_at) == [cap |-> cap, fail_at |-> fail_at]
\* the Cursor over an in-memory Body
Cursor == Behaviour(0, 0)

\* Part::text; Body::from(&[u8]) knows its length and reads from a Cursor
text(name, value, encoding) ==
    [name |-> name,
     encoding |-> encoding,
     content_type |-> MimeTextPlain,
     data |-> value,
     file_data |-> NoFile,
     len |-> Len(value),
     src |-> Cursor]

\* Part::file_raw
file_raw(name, filename, content_type, encoding, data) ==
    [name |-> name,
     encoding |-> encoding,
     content_type |-> content_type,
     data |-> data,
     file_data |-> SomeFile(filename),
     len |-> Len(data),
     src |-> Cursor]

\* Part::file_raw_async; Body::from_reader(data, data_len), where the reader
\* `data` holds the bytes `bytes` and answers reads as `behaviour` says
file_raw_async(name, filename, content_type, encoding, bytes, behaviour, data_len) ==
    [name |-> name,
     encoding |-> encoding,
     content_type |-> content_type,
     data |-> bytes,
     file_data |-> SomeFile(filename),
     len |-> data_len,
     src |-> behaviour]

\* the part of s after its last c, s itself when it holds none
RECURSIVE AfterLast(_, _)
AfterLast(s, c) ==
    IF IndexOf(s, c) > Len(s) THEN s
    ELSE AfterLast(SubSeq(s, IndexOf(s, c) + 1, Len(s)), c)
\* the pieces of s between its c's
RECURSIVE Split(_, _)
Split(s, c) ==
    IF IndexOf(s, c) > Len(s) THEN << s >>
    ELSE << SubSeq(s, 1, IndexOf(s, c) - 1) >>
            \o Split(SubSeq(s, IndexOf(s, c) + 1, Len(s)), c)

\* "file" and "application/octet-stream"
FileWord == <<102, 105, 108, 101>>
OctetStream == <<97, 112, 112, 108, 105, 99, 97, 116, 105, 111, 110, 47, 111, 99, 116,
                 101, 116, 45, 115, 116, 114, 101, 97, 109>>

\* mime_guess: the entries of its table of extensions that are kept here, each
\* an extension in lower case with the first media type listed for it
MIME_TYPES ==
  {
    \* txt: text/plain
    << <<116, 120, 116>>,
       <<116, 101, 120, 116, 47, 112, 108, 97, 105, 110>> >>,
    \* png: image/png
    << <<112, 110, 103>>,
       <<105, 109, 97, 103, 101, 47, 112, 110, 103>> >>,
    \* json: application/json
    << <<106, 115, 111, 110>>,
       <<97, 112, 112, 108, 105, 99, 97, 116, 105, 111, 110, 47, 106, 115, 111, 110>> >>,
    \* html: text/html
    << <<104, 116, 109, 108>>,
       <<116, 101, 120, 116, 47, 104, 116, 109, 108>> >>,
    \* htm: text/html
    << <<104, 116, 109>>,
       <<116, 101, 120, 116, 47, 104, 116, 109, 108>> >>,
    \* jpg: image/jpeg
    << <<106, 112, 103>>,
       <<105, 109, 97, 103, 101, 47, 106, 112, 101, 103>> >>,
    \* jpeg: image/jpeg
    << <<106, 112, 101, 103>>,
       <<105, 109, 97, 103, 101, 47, 106, 112, 101, 103>> >>,
    \* gif: image/gif
    << <<103, 105, 102>>,
       <<105, 109, 97, 103, 101, 47, 103, 105, 102>> >>,
    \* css: text/css
    << <<99, 115, 115>>,
       <<116, 101, 120, 116, 47, 99, 115, 115>> >>,
    \* pdf: application/pdf
    << <<112, 100, 102>>,
       <<97, 112, 112, 108, 105, 99, 97, 116, 105, 111, 110, 47, 112, 100, 102>> >>,
    \* csv: text/csv
    << <<99, 115, 118>>,
       <<116, 101, 120, 116, 47, 99, 115, 118>> >>,
    \* zip: application/zip
    << <<122, 105, 112>>,
       <<97, 112, 112, 108, 105, 99, 97, 116, 105, 111, 110, 47, 122, 105, 112>> >>,
    \* svg: image/svg+xml
    << <<115, 118, 103>>,
       <<105, 109, 97, 103, 101, 47, 115, 118, 103, 43, 120, 109, 108>> >>,
    \* mp4: video/mp4
    << <<109, 112, 52>>,
       <<118, 105, 100, 101, 111, 47, 109, 112, 52>> >>,
    \* webp: image/webp
    << <<119, 101, 98, 112>>,
       <<105, 109, 97, 103, 101, 47, 119, 101, 98, 112>> >>
  }
\* mime_guess::from_ext(ext).first(): the media type of the entry whose
\* extension is `ext` without regard to case, none when the table has no such entry
mime_guess(ext) ==
    LET found == {entry \in MIME_TYPES : entry[1] = LowerAll(ext)}
    IN IF found = {} THEN [v |-> <<>>, some |-> FALSE]
       ELSE [v |-> (CHOOSE entry \in found : TRUE)[2], some |-> TRUE]

\* Path::file_name: the last of the path's components, which leave out the
\* empty pieces between separators and the pieces "."; None when nothing is
\* left or the last one is ".."
NormalComponents(path) ==
    SelectSeq(Split(path, 47), LAMBDA piece : piece # <<>> /\ piece # <<46>>)
file_name(path) ==
    LET components == NormalComponents(path)
        last_one == components[Len(components)]
    IN IF components = <<>> \/ last_one = <<46, 46>> THEN [v |-> <<>>, some |-> FALSE]
       ELSE [v |-> last_one, some |-> TRUE]
\* Path::extension: the part of the file name after its last ".", None
\* when the name holds no "." or only the one it starts with
extension(path) ==
    LET f == file_name(path).v
        after == AfterLast(f, 46)
        before == SubSeq(f, 1, Len(f) - Len(after) - 1)
    IN IF ~file_name(path).some \/ IndexOf(f, 46) > Len(f) \/ before = <<>>
       THEN [v |-> <<>>, some |-> FALSE]
       ELSE [v |-> after, some |-> TRUE]

\* fn filename: the file name of the path, "file" when it has none
path_filename(path) == IF file_name(path).some THEN file_name(path).v ELSE FileWord

\* fn content_type, with the fallback of Part::file_async: the media type
\* mime_guess has for the extension of the path, whose essence and source are
\* the string of the table; application/octet-stream when the path has no
\* extension or the table does not hold it
path_content_type(path) ==
    LET guess == mime_guess(extension(path).v)
    IN IF extension(path).some /\ guess.some THEN Mime(guess.v, guess.v)
       ELSE Mime(OctetStream, OctetStream)

\* Part::file_async once open and metadata have answered: metadata gave the
\* length file_len, the file yields `bytes` when it is read and its reader
\* answers reads as `behaviour` says. The length of the part is file_len, or
\* (file_len * 4 + 2) / 3 with Base64
file_async(name, path, encoding, bytes, behaviour, file_len) ==
    file_raw_async(name, path_filename(path), path_content_type(path), encoding, bytes,
                   behaviour,
                   IF encoding = "Base64" THEN (file_len * 4 + 2) \div 3
                   ELSE file_len)

\* Part::header_len
header_len(p) ==
    LET len0 == 39 + Len(p.name)
        len1 == IF p.file_data.some THEN len0 + 15 + Len(p.file_data.v) ELSE len0
        len2 == len1 + 2
        len3 == len2 + 14 + Len(p.content_type.essence)
        len4 == len3 + 2
        len5 == IF p.encoding # "NoEncoding"
                THEN len4 + 27 + Len(to_str(p.encoding)) + 2
                ELSE len4
    IN len5 + 2

\* a write_header that leaves out the Content-Transfer-Encoding line
header_bytes_without_encoding(p) ==
    DispositionPrefix \o p.name \o Quote
      \o (IF p.file_data.some THEN FilenamePrefix \o p.file_data.v \o Quote ELSE <<>>)
      \o CRLF
      \o ContentTypePrefix \o p.content_type.source \o CRLF
      \o CRLF

\* Part::write_header into an empty buffer, which is Part::header_bytes
header_bytes(p) ==
    DispositionPrefix \o p.name \o Quote
      \o (IF p.file_data.some THEN FilenamePrefix \o p.file_data.v \o Quote ELSE <<>>)
      \o CRLF
      \o ContentTypePrefix \o p.content_type.source \o CRLF
      \o (IF p.encoding # "NoEncoding"
          THEN TransferEncodingPrefix \o to_str(p.encoding) \o CRLF
          ELSE <<>>)
      \o CRLF

\* Part::size_hint; `data_len *= 4 / 3` multiplies by the integer quotient
part_size_hint(p) ==
    IF p.len = None THEN None
    ELSE (IF p.encoding = "Base64" THEN p.len * (4 \div 3) ELSE p.len) + header_len(p)

(* ---------------------------------------------------------------------- *)
(* ReaderStream (reader_stream.rs)                                        *)
(* ---------------------------------------------------------------------- *)
CHUNK_SIZE == 256

nearest_multiple_of(n, multiple) ==
    IF n % multiple = 0 THEN n ELSE (n \div multiple + 1) * multiple

\* ReaderStream::new: the buf_size field
ReaderStreamBufSize(buf_size, encoding) ==
    LET b == IF buf_size = None THEN CHUNK_SIZE ELSE buf_size
    IN IF encoding = "Base64" THEN nearest_multiple_of(b, 3) ELSE b

\* one element of a chain: a once(..) stream / Cursor over fixed bytes, or the
\* ReaderStream over the payload of part number `part`
Once(bytes, part) ==
    [encoding |-> "NoEncoding",
     bytes |-> bytes,
     buf_size |-> 0,
     part |-> part,
     kind |-> "once"]
ReaderStream(part, buf_size, encoding) ==
    [encoding |-> encoding,
     bytes |-> <<>>,
     buf_size |-> ReaderStreamBufSize(buf_size, encoding),
     part |-> part,
     kind |-> "data"]

\* Part::into_stream and Part::into_reader: header, then the ReaderStream with
\* buf_size.or(self.data.len())
PartChain(p, i, buf_size) ==
    << Once(header_bytes(p), i),
       ReaderStream(i, IF buf_size # None THEN buf_size ELSE p.len, p.encoding) >>

(* ---------------------------------------------------------------------- *)
(* Multipart (multipart.rs)                                               *)
(* ---------------------------------------------------------------------- *)
BOUNDARY_LEN == 30

\* format!("--{}\r\n", boundary)
HeadBytes(b) == Dashes \o b \o CRLF
\* format!("\r\n--{}\r\n", boundary)
Separator(b) == CRLF \o Dashes \o b \o CRLF
\* format!("\r\n--{}--\r\n", boundary)
Tail_(b) == CRLF \o Dashes \o b \o Dashes \o CRLF
\* format!("--{}--\r\n", boundary)
ClosingBoundary(b) == Dashes \o b \o Dashes \o CRLF

\* a fold that chains the parts without a separator between them
RECURSIVE FoldChainUnseparated(_, _, _, _)
FoldChainUnseparated(fs, i, b, buf_size) ==
    IF i > Len(fs) THEN <<>>
    ELSE PartChain(fs[i], i, buf_size) \o FoldChainUnseparated(fs, i + 1, b, buf_size)

\* the fold of Multipart::into_stream / into_reader over the parts after the first
RECURSIVE FoldChain(_, _, _, _)
FoldChain(fs, i, b, buf_size) ==
    IF i > Len(fs) THEN <<>>
    ELSE <<Once(Separator(b), 0)>> \o PartChain(fs[i], i, buf_size)
            \o FoldChain(fs, i + 1, b, buf_size)

\* the fold with its operands swapped, stream.chain(seperator).chain(acc): each
\* part lands in front of the parts added before it
RECURSIVE FoldChainSwapped(_, _, _, _)
FoldChainSwapped(fs, i, b, buf_size) ==
    IF i < 2 THEN <<>>
    ELSE PartChain(fs[i], i, buf_size) \o <<Once(Separator(b), 0)>>
            \o FoldChainSwapped(fs, i - 1, b, buf_size)

MultipartChain_swapped(fs, b, buf_size) ==
    IF fs = <<>> THEN <<>>
    ELSE FoldChainSwapped(fs, Len(fs), b, buf_size) \o <<Once(HeadBytes(b), 0)>>
            \o PartChain(fs[1], 1, buf_size) \o <<Once(Tail_(b), 0)>>

\* the chain built without the is_empty() test: the opening and closing lines
\* around whatever parts there are
MultipartChain_unguarded(fs, b, buf_size) ==
    <<Once(HeadBytes(b), 0)>>
        \o (IF fs = <<>> THEN <<>> ELSE PartChain(fs[1], 1, buf_size))
        \o FoldChain(fs, 2, b, buf_size) \o <<Once(Tail_(b), 0)>>

\* Multipart::into_stream / Multipart::into_reader: the chain that is built
MultipartChain(fs, b, buf_size) ==
    IF fs = <<>> THEN <<>>
    ELSE <<Once(HeadBytes(b), 0)>> \o PartChain(fs[1], 1, buf_size)
            \o FoldChain(fs, 2, b, buf_size) \o <<Once(Tail_(b), 0)>>

\* Multipart::size_hint
RECURSIVE SizeLoop(_, _, _)
SizeLoop(fs, i, size) ==
    IF i > Len(fs) THEN size + 38
    ELSE IF part_size_hint(fs[i]) = None THEN None
    ELSE SizeLoop(fs, i + 1, size + 36 + part_size_hint(fs[i]))

size_hint(fs) == SizeLoop(fs, 1, 34)

(* ---------------------------------------------------------------------- *)
(* State                                                                  *)
(* ---------------------------------------------------------------------- *)
VARIABLES
    boundary,   \* Multipart::boundary
    fields,     \* Multipart::fields (in SpecPart: the one Part under study)
    pc,         \* what the caller is doing: "build", "open", "metadata",
                \* "stream", "reader", "bytes", "extend", "reqbytes", "body";
                \* with lib.rs "lib_open", "lib_body", "lib_done"
    hint,       \* the chunk-size hint given to into_stream / into_reader
    segs,       \* the chain being driven (stream or reader form)
    cur,        \* index in segs of the element being polled
    off,        \* reader form: bytes already read from the current Cursor
    dest,       \* reader form: the consumer's buffer size while payload arrives
    pos,        \* per part: bytes already read from its byte source
    log,        \* the reads issued to byte sources during this materialization
    origin,     \* the parts (0: a boundary line) the output so far came from, in
                \* output order, a run of equal numbers written once
    bi,         \* into_bytes: index of the field being extended
    bout,       \* the buffer filled by into_bytes / extend
    bstatus,    \* "idle", "run", "ok", "err"
    items,      \* the items yielded so far by the stream
    sstatus,    \* "idle", "run", "end"
    rout,       \* the bytes read so far from the reader (or request body)
    rstatus,    \* "idle", "run", "eof", "err"
    req,        \* the request handed to set_request / set_request_bytes
    buf_buffer, \* ReaderStream::buf_buffer of the reader used as a buffered reader
    filled,     \* the slice the last poll_fill_buf returned, less what was consumed
    last,       \* the last add_* call (in SpecPart: the constructor called), the
                \* mime string it was given and its result
    file_call   \* the call of Part::file_async that is suspended at an await

vars == << boundary, fields, pc, hint, segs, cur, off, dest, pos, log, origin, bi,
           bout, bstatus, items, sstatus, rout, rstatus, req, last, buf_buffer,
           filled, file_call >>

(* ---------------------------------------------------------------------- *)
(* Inputs                                                                 *)
(* ---------------------------------------------------------------------- *)
\* payload bytes: '=', CR, LF, then a letter
PayloadByte(i) ==
    CASE i % 4 = 1 -> 61 [] i % 4 = 2 -> 13 [] i % 4 = 3 -> 10 [] OTHER -> 77

Payload(n) == [i \in 1..n |-> PayloadByte(i)]
Payloads == {Payload(n) : n \in 0..MaxLen}
FullPayload == Payload(MaxLen)

\* "f" and "x"
FieldName == <<102>>
FileName == <<120>>

Hints == {None} \cup (0..MaxHint)
DestSizes == (1..MaxDest) \cup {BigDest}

\* readers wrapped by add_async_read: one that returns a byte per read, one
\* that returns two, and one whose second read fails
ShortReads == Behaviour(1, 0)
Failing == Behaviour(0, 2)
Behaviours == {ShortReads, Behaviour(2, 0), Failing}

\* "./a.txt", "./r", "A.TXT/" and "./missing.txt": the paths given to add_file /
\* Part::file_async. The first three name files that exist, the last one does not
PathTxt == <<46, 47, 97, 46, 116, 120, 116>>
PathNoExtension == <<46, 47, 114>>
PathUpper == <<65, 46, 84, 88, 84>>
PathMissing == <<46, 47, 109, 105, 115, 115, 105, 110, 103, 46, 116, 120, 116>>
PathJson == <<97, 46, 106, 115, 111, 110>>
Paths == {PathTxt, PathNoExtension, PathUpper, PathJson, PathMissing}
Exists(path) == path # PathMissing
\* a file's reader returns what the blocking read has delivered so far: all
\* that is left, or a shorter run of bytes
FileReads == {Cursor, ShortReads}

\* generate_boundary(): 30 alphanumeric characters ('z' repeated here)
BoundaryChars == {122}
Boundaries == {[i \in 1..BOUNDARY_LEN |-> c] : c \in BoundaryChars}

\* mime strings given to add_*: "text/plain", "a/b; c=d", "a/" and "A/b;"
\* parse (the last one to "a/b"); "ab" has no slash, "/b" no type and
\* "a/b; c" a parameter without `=`
MimeWithParam == <<97, 47, 98, 59, 32, 99, 61, 100>>
MimeEmptySubtype == <<97, 47>>
MimeEmptyParams == <<65, 47, 98, 59>>
ValidMimes == {TextPlain, MimeWithParam, MimeEmptySubtype, MimeEmptyParams}
InvalidMimes == {<<97, 98>>, <<47, 98>>, <<97, 47, 98, 59, 32, 99>>}
MimeStrings == ValidMimes \cup InvalidMimes

\* the last call that returns a Result: its name, the mime string passed and
\* "ok", "err" (the mime string did not parse) or "io" (an io::Error);
\* "pending" while an async call is suspended
Called(call, mime, res) == [mime |-> mime, call |-> call, res |-> res]
NoCall == Called("none", <<>>, "ok")

\* the arguments of the call of Part::file_async that is suspended
FileCall(call, path, encoding) == [encoding |-> encoding, path |-> path, call |-> call]
NoFileCall == FileCall("none", <<>>, "NoEncoding")

\* "test-boundary", which the tests of multipart.rs write into the boundary
\* field of a new Multipart
TestBoundary == <<116, 101, 115, 116, 45, 98, 111, 117, 110, 100, 97, 114, 121>>

\* Option<Vec<u8>> of ReaderStream::buf_buffer
NoBuffer == [v |-> <<>>, some |-> FALSE]
SomeBuffer(b) == [v |-> b, some |-> TRUE]

\* header values of a request: absent, or present with a value
NoHeader == [v |-> <<>>, some |-> FALSE]
Header(v) == [v |-> v, some |-> TRUE]
NoRequest == [content_type |-> NoHeader,
              body |-> "none",
              body_len |-> None,
              content_length |-> NoHeader,
              given |-> FALSE,
              prior_length |-> NoHeader]
\* the requests a caller passes in: a fresh one, or one with Content-Length: 5
PriorLengths == {NoHeader, Header(<<53>>)}

(* ---------------------------------------------------------------------- *)
(* Byte sources                                                           *)
(* ---------------------------------------------------------------------- *)
Read(part, want, got) == [part |-> part, want |-> want, got |-> got]

\* the number of reads already issued to the source of part i
ReadsOf(lg, i) == Cardinality({k \in DOMAIN lg : lg[k].part = i})

\* poll_read of the reader of a part's Body with a buffer of k bytes, as its
\* read number idx: the number of bytes returned, -1 standing for Err
SourceRead(p, at, k, idx) ==
    LET rem == Len(p.data) - at IN
    IF p.src.fail_at > 0 /\ idx >= p.src.fail_at /\ idx < p.src.fail_at + MaxErrs
    THEN -1
    ELSE IF k = 0 \/ rem = 0 THEN 0
    ELSE IF p.src.cap = 0 THEN Min(k, rem)
    ELSE Min(Min(k, rem), p.src.cap)

Polled(res, bytes, want, got) ==
    [bytes |-> bytes, res |-> res, want |-> want, got |-> got]

\* impl Stream for ReaderStream: poll_next.  "none" is Ready(None), "some" is
\* Ready(Some(Ok(buf))), "err" is Ready(Some(Err(e))).
ReaderStream_poll_next(rs, p, at, idx) ==
    LET n == SourceRead(p, at, rs.buf_size, idx)
        buf == SubSeq(p.data, at + 1, at + n)
    IN IF n = 0 THEN Polled("none", <<>>, rs.buf_size, 0)
       ELSE IF n > 0 THEN
            Polled("some",
                   IF rs.encoding # "NoEncoding" THEN encode(rs.encoding, buf) ELSE buf,
                   rs.buf_size, n)
       ELSE Polled("err", <<>>, rs.buf_size, -1)

\* impl AsyncRead for ReaderStream: poll_read into a buffer of d bytes.
\* "none" is Ready(Ok(0)), "some" is Ready(Ok(copy_size)) with the bytes copied.
ReaderStream_poll_read(rs, p, at, idx, d) ==
    LET n == SourceRead(p, at, d, idx)
        raw == SubSeq(p.data, at + 1, at + n)
    IN IF rs.encoding # "NoEncoding" THEN
            IF n = 0 THEN Polled("none", <<>>, d, 0)
            ELSE IF n > 0 THEN
                LET temp_buf == encode(rs.encoding, raw)
                    copy_size == Min(Len(temp_buf), d)
                IN Polled("some", SubSeq(temp_buf, 1, copy_size), d, n)
            ELSE Polled("err", <<>>, d, -1)
       ELSE
            IF n = 0 THEN Polled("none", <<>>, d, 0)
            ELSE IF n > 0 THEN Polled("some", raw, d, n)
            ELSE Polled("err", <<>>, d, -1)

\* poll_read of the Cursor over an in-memory Body at position `at` with a
\* buffer of k bytes: the number of bytes returned
CursorRead(data, at, k) == IF at >= Len(data) THEN 0 ELSE Min(k, Len(data) - at)
\* poll_fill_buf of that Cursor: what is left from its position on
CursorFillBuf(data, at) == SubSeq(data, Min(at, Len(data)) + 1, Len(data))

Filled(res, slice, buffer, got, want, reads) ==
    [res |-> res, want |-> want, got |-> got, slice |-> slice, buffer |-> buffer,
     reads |-> reads]

\* impl AsyncBufRead for ReaderStream: poll_fill_buf over a Cursor at position
\* `at`.  Without an encoding the Cursor's own buffer is returned; with one,
\* buf_buffer (created with buf_size zero bytes when absent) is handed to
\* poll_read as it is, truncated to what was read and encoded in place.
ReaderStream_poll_fill_buf(rs, p, at, bb) ==
    IF rs.encoding = "NoEncoding"
    THEN Filled("some", CursorFillBuf(p.data, at), bb, 0, 0, 0)
    ELSE LET buf == IF bb.some THEN bb.v ELSE [i \in 1..rs.buf_size |-> 0]
             n == CursorRead(p.data, at, Len(buf))
             encoded == encode(rs.encoding, SubSeq(p.data, at + 1, at + n))
         IN IF n = 0 THEN Filled("some", <<>>, SomeBuffer(buf), 0, Len(buf), 1)
            ELSE Filled("some", encoded, SomeBuffer(encoded), n, Len(buf), 1)

Outcome(kind, bytes, part, c, o, ps, lg) ==
    [bytes |-> bytes,
     part |-> part,
     kind |-> kind,
     cur |-> c,
     off |-> o,
     pos |-> ps,
     log |-> lg]

\* poll_next of a chain of once(..) streams and ReaderStreams: an exhausted
\* element hands over to the next one within the same poll
RECURSIVE ChainPollNext(_, _, _, _, _)
ChainPollNext(sg, fs, c, ps, lg) ==
    IF c > Len(sg) THEN Outcome("end", <<>>, 0, c, 0, ps, lg)
    ELSE IF sg[c].kind = "once" THEN
        Outcome("item", sg[c].bytes, sg[c].part, c + 1, 0, ps, lg)
    ELSE
        LET i == sg[c].part
            r == ReaderStream_poll_next(sg[c], fs[i], ps[i], ReadsOf(lg, i) + 1)
            lg1 == Append(lg, Read(i, r.want, r.got))
        IN IF r.res = "none" THEN ChainPollNext(sg, fs, c + 1, ps, lg1)
           ELSE IF r.res = "some" THEN
                Outcome("item", r.bytes, i, c, 0, [ps EXCEPT ![i] = @ + r.got], lg1)
           ELSE Outcome("err", <<>>, i, c, 0, ps, lg1)

\* poll_read of a chain of Cursors and ReaderStreams into a buffer of d > 0
\* bytes: an element that returns 0 hands over to the next one
RECURSIVE ChainPollRead(_, _, _, _, _, _, _)
ChainPollRead(sg, fs, c, o, ps, lg, d) ==
    IF c > Len(sg) THEN Outcome("eof", <<>>, 0, c, 0, ps, lg)
    ELSE IF sg[c].kind = "once" THEN
        LET n == Min(d, Len(sg[c].bytes) - o) IN
        IF n = 0 THEN ChainPollRead(sg, fs, c + 1, 0, ps, lg, d)
        ELSE Outcome("item", SubSeq(sg[c].bytes, o + 1, o + n), sg[c].part,
                     c, o + n, ps, lg)
    ELSE
        LET i == sg[c].part
            r == ReaderStream_poll_read(sg[c], fs[i], ps[i], ReadsOf(lg, i) + 1, d)
            lg1 == Append(lg, Read(i, r.want, r.got))
        IN IF r.res = "none" THEN ChainPollRead(sg, fs, c + 1, 0, ps, lg1, d)
           ELSE IF r.res = "some" THEN
                Outcome("item", r.bytes, i, c, 0, [ps EXCEPT ![i] = @ + r.got], lg1)
           ELSE Outcome("err", <<>>, i, c, 0, ps, lg1)

\* http_types Body::poll_read: a Body of known length never reads past it
BodyPollRead(sg, fs, c, o, ps, lg, d, length, bytes_read) ==
    IF length # None /\ length = bytes_read
    THEN Outcome("eof", <<>>, 0, c, o, ps, lg)
    ELSE ChainPollRead(sg, fs, c, o, ps, lg,
                       IF length # None THEN Min(length - bytes_read, d) ELSE d)

(* ---------------------------------------------------------------------- *)
(* Initial states                                                         *)
(* ---------------------------------------------------------------------- *)
Idle ==
    /\ fields = <<>>
    /\ pc = "build"
    /\ hint = None
    /\ segs = <<>>
    /\ cur = 1
    /\ off = 0
    /\ dest = BigDest
    /\ pos = <<>>
    /\ log = <<>>
    /\ origin = <<>>
    /\ bi = 0
    /\ bout = <<>>
    /\ bstatus = "idle"
    /\ items = <<>>
    /\ sstatus = "idle"
    /\ rout = <<>>
    /\ rstatus = "idle"
    /\ req = NoRequest
    /\ last = NoCall
    /\ file_call = NoFileCall
    /\ buf_buffer = NoBuffer
    /\ filled = <<>>

\* Multipart::new
Init == boundary \in Boundaries /\ Idle

\* Multipart::new() followed, as in the tests of multipart.rs, by
\* `m.boundary = "test-boundary".into()`, or left as generated
InitTest == boundary \in Boundaries \cup {TestBoundary} /\ Idle

\* no Multipart: a Part is about to be constructed
InitPart == boundary = <<>> /\ Idle

ZeroPos == [i \in 1..Len(fields) |-> 0]

(* ---------------------------------------------------------------------- *)
(* Building a Multipart                                                   *)
(* ---------------------------------------------------------------------- *)
Push(part) ==
    /\ pc = "build"
    /\ Len(fields) < MaxParts
    /\ fields' = Append(fields, part)
    /\ last' = NoCall
    /\ UNCHANGED << buf_buffer, filled, file_call >>
    /\ UNCHANGED << boundary, pc, hint, segs, cur, off, dest, pos, log, origin, bi, bout,
                    bstatus, items, sstatus, rout, rstatus, req >>

\* an add_* that pushes the part although the mime string did not parse
push_unparsed(fs, ok, part) == Append(fs, part)

\* `mime.parse()?` before `self.fields.push(part)`: an Err returns before the push
push_parsed(fs, ok, part) == IF ok THEN Append(fs, part) ELSE fs

\* an add_* call that parses a mime string; `part` is the part it pushes
TryPush(call, mime, part) ==
    /\ pc = "build"
    /\ Len(fields) < MaxParts
    /\ fields' = push_parsed(fields, parse(mime).ok, part)
    /\ last' = Called(call, mime, IF parse(mime).ok THEN "ok" ELSE "err")
    /\ UNCHANGED << buf_buffer, filled, file_call >>
    /\ UNCHANGED << boundary, pc, hint, segs, cur, off, dest, pos, log, origin, bi, bout,
                    bstatus, items, sstatus, rout, rstatus, req >>

\* Multipart::add_text
add_text ==
    \E value \in {Payload(0), FullPayload} : Push(text(FieldName, value, "NoEncoding"))

\* Multipart::add_enc_text
add_enc_text == \E encoding \in Encodings : Push(text(FieldName, FullPayload, encoding))

\* Multipart::add_text_mime: the part is built as text/plain, then given the
\* parsed content type
add_text_mime ==
    \E mime \in MimeStrings :
        TryPush("add_text_mime", mime,
                [text(FieldName, FullPayload, "NoEncoding") EXCEPT
                    !.content_type = parse(mime).mime])

\* Multipart::add_file_bytes
add_file_bytes ==
    \E encoding \in {"NoEncoding", "Base64"}, mime \in {TextPlain} \cup InvalidMimes :
        TryPush("add_file_bytes", mime,
                file_raw(FieldName, FileName, parse(mime).mime, encoding, FullPayload))

\* Part::file_async up to its first await: filename and content type are
\* taken from the path and AsyncFile::open(path) is pending
file_async_begin(call, path, encoding) ==
    /\ pc = "build"
    /\ pc' = "open"
    /\ file_call' = FileCall(call, path, encoding)
    /\ last' = Called(call, <<>>, "pending")
    /\ UNCHANGED << buf_buffer, filled >>
    /\ UNCHANGED << boundary, fields, hint, segs, cur, off, dest, pos, log, origin, bi,
                    bout, bstatus, items, sstatus, rout, rstatus, req >>

\* Multipart::add_file, which awaits Part::file_async and holds the Multipart
\* until it returns
add_file ==
    /\ Len(fields) < MaxParts
    /\ \E encoding \in {"NoEncoding", "Base64"}, path \in {PathTxt, PathMissing} :
            file_async_begin("add_file", path, encoding)

\* `AsyncFile::open(path).await?`: the Err of a path that does not open is
\* returned, and nothing is made or pushed
file_async_open ==
    /\ pc = "open"
    /\ IF Exists(file_call.path)
       THEN /\ pc' = "metadata"
            /\ UNCHANGED << file_call, last >>
       ELSE /\ pc' = "build"
            /\ file_call' = NoFileCall
            /\ last' = Called(file_call.call, <<>>, "io")
    /\ UNCHANGED << buf_buffer, filled >>
    /\ UNCHANGED << boundary, fields, hint, segs, cur, off, dest, pos, log, origin, bi,
                    bout, bstatus, items, sstatus, rout, rstatus, req >>

\* what the file holds when it is read: the files add_file opens hold the
\* full payload
FileContents == IF file_call.call = "add_file" THEN {FullPayload} ELSE Payloads
\* the length metadata reports: the length of what is read later, or 0 for a
\* file that was still empty when it was opened
FileLengths(bytes) == {Len(bytes), 0}

\* `file.metadata().await?`: an Err is returned; otherwise the length is fixed
\* here, the Part is made over a BufReader of the file, and add_file pushes it
file_async_metadata ==
    /\ pc = "metadata"
    /\ pc' = "build"
    /\ file_call' = NoFileCall
    /\ \E answered \in BOOLEAN, bytes \in FileContents, behaviour \in FileReads :
         \E file_len \in FileLengths(bytes) :
            IF answered
            THEN /\ fields' = Append(fields,
                                     file_async(FieldName, file_call.path,
                                                file_call.encoding, bytes, behaviour,
                                                file_len))
                 /\ last' = Called(file_call.call, <<>>, "ok")
            ELSE /\ fields' = fields
                 /\ last' = Called(file_call.call, <<>>, "io")
    /\ UNCHANGED << buf_buffer, filled >>
    /\ UNCHANGED << boundary, hint, segs, cur, off, dest, pos, log, origin, bi, bout,
                    bstatus, items, sstatus, rout, rstatus, req >>

\* Multipart::add_async_read
add_async_read ==
    \E behaviour \in {ShortReads, Failing}, data_len \in {None, Len(FullPayload)},
       mime \in {TextPlain} \cup InvalidMimes :
        TryPush("add_async_read", mime,
                file_raw_async(FieldName, FileName, parse(mime).mime, "NoEncoding",
                               FullPayload, behaviour, data_len))

\* The kinds of error a failing read of a reader returns: ErrorKind::Interrupted
\* and any other kind
ErrorKinds == {"Interrupted", "Other"}

\* Read::read_to_end of a reader that holds `bytes` from `at` on, idx being the
\* number of its next read and `kind` the kind of error of its failing reads:
\* reads are issued until one returns 0; a read that fails with Interrupted is
\* issued again, the Err of any other kind is returned
Buffer(ok, bytes) == [ok |-> ok, bytes |-> bytes]
RECURSIVE read_to_end(_, _, _, _, _)
read_to_end(bytes, behaviour, kind, at, idx) ==
    LET got == SourceRead([data |-> bytes, src |-> behaviour], at, BigDest, idx)
    IN IF got < 0
       THEN IF kind = "Interrupted" THEN read_to_end(bytes, behaviour, kind, at, idx + 1)
            ELSE Buffer(FALSE, <<>>)
       ELSE IF got = 0 THEN Buffer(TRUE, SubSeq(bytes, 1, at))
       ELSE read_to_end(bytes, behaviour, kind, at + got, idx + 1)

\* AsyncReadExt::read_to_end, which Body::into_bytes awaits: reads are polled
\* until one returns 0, and the Err of a read is returned whatever its kind
RECURSIVE async_read_to_end(_, _, _, _)
async_read_to_end(bytes, behaviour, at, idx) ==
    LET got == SourceRead([data |-> bytes, src |-> behaviour], at, BigDest, idx)
    IN IF got < 0 THEN Buffer(FALSE, <<>>)
       ELSE IF got = 0 THEN Buffer(TRUE, SubSeq(bytes, 1, at))
       ELSE async_read_to_end(bytes, behaviour, at + got, idx + 1)

\* The readers given to add_sync_read: one that gives all it is asked for, one
\* that gives a byte at a time, and ones whose first or second read fails
SyncReaders == {Cursor, ShortReads, Behaviour(0, 1), Failing, Behaviour(1, 2)}

\* Multipart::add_sync_read: `data.read_to_end(&mut buffer)?`, Body::from(buffer),
\* then the mime string is parsed and the part pushed
add_sync_read ==
    \E mime \in {TextPlain} \cup InvalidMimes, behaviour \in SyncReaders,
       kind \in ErrorKinds :
        LET buffer == read_to_end(FullPayload, behaviour, kind, 0, 1)
        IN /\ pc = "build"
           /\ Len(fields) < MaxParts
           /\ fields' = IF buffer.ok
                        THEN push_parsed(fields, parse(mime).ok,
                                         file_raw(FieldName, FileName, parse(mime).mime,
                                                  "NoEncoding", buffer.bytes))
                        ELSE fields
           /\ last' = Called("add_sync_read", mime,
                             IF ~buffer.ok THEN "io"
                             ELSE IF parse(mime).ok THEN "ok"
                             ELSE "err")
           /\ UNCHANGED << buf_buffer, filled, file_call >>
           /\ UNCHANGED << boundary, pc, hint, segs, cur, off, dest, pos, log, origin, bi,
                           bout, bstatus, items, sstatus, rout, rstatus, req >>

(* ---------------------------------------------------------------------- *)
(* Constructing a single Part (SpecPart)                                  *)
(* ---------------------------------------------------------------------- *)
Construct(call, part) ==
    /\ pc = "build"
    /\ fields = <<>>
    /\ fields' = <<part>>
    /\ last' = Called(call, <<>>, "ok")
    /\ UNCHANGED << buf_buffer, filled, file_call >>
    /\ UNCHANGED << boundary, pc, hint, segs, cur, off, dest, pos, log, origin, bi, bout,
                    bstatus, items, sstatus, rout, rstatus, req >>

\* Part::text
PartText ==
    \E value \in Payloads, encoding \in OptEncodings :
        Construct("text", text(FieldName, value, encoding))

\* Part::file_raw
PartFileRaw ==
    \E value \in Payloads, encoding \in OptEncodings :
        Construct("file_raw", file_raw(FieldName, FileName, MimeTextPlain, encoding, value))

\* Part::file_raw_async
PartFileRawAsync ==
    \E value \in Payloads, encoding \in OptEncodings, behaviour \in Behaviours :
        \E data_len \in {None, Len(value)} :
            Construct("file_raw_async",
                      file_raw_async(FieldName, FileName, MimeTextPlain, encoding,
                                     value, behaviour, data_len))

\* Part::file_async
PartFileAsync ==
    /\ fields = <<>>
    /\ \E encoding \in OptEncodings, path \in Paths :
            file_async_begin("file_async", path, encoding)

(* ---------------------------------------------------------------------- *)
(* Streaming: into_stream and the consumer's polls                        *)
(* ---------------------------------------------------------------------- *)
StreamBegin(chain, buf_size) ==
    /\ pc = "build"
    /\ pc' = "stream"
    /\ hint' = buf_size
    /\ segs' = chain
    /\ cur' = 1
    /\ pos' = ZeroPos
    /\ log' = <<>>
    /\ origin' = <<>>
    /\ items' = <<>>
    /\ sstatus' = "run"
    /\ UNCHANGED << buf_buffer, filled, file_call >>
    /\ UNCHANGED << boundary, fields, off, dest, bi, bout, bstatus, rout, rstatus, req >>

\* Multipart::into_stream
into_stream ==
    /\ \E buf_size \in {None, MaxHint} :
          StreamBegin(MultipartChain(fields, boundary, buf_size), buf_size)
    /\ last' = NoCall

\* Part::into_stream
PartIntoStream ==
    /\ Len(fields) = 1
    /\ \E buf_size \in Hints : StreamBegin(PartChain(fields[1], 1, buf_size), buf_size)
    /\ UNCHANGED last

\* the output grows by bytes that come from `part`
From(org, part) ==
    IF org # <<>> /\ org[Len(org)] = part THEN org ELSE Append(org, part)

Item(ok, bytes, part) == [ok |-> ok, bytes |-> bytes, part |-> part]

\* one stream.next().await of the consumer
StreamPollNext ==
    /\ pc = "stream"
    /\ sstatus = "run"
    /\ LET o == ChainPollNext(segs, fields, cur, pos, log) IN
        /\ cur' = o.cur
        /\ pos' = o.pos
        /\ log' = o.log
        /\ origin' = IF o.kind = "item" THEN From(origin, o.part) ELSE origin
        /\ items' = IF o.kind = "end" THEN items
                    ELSE Append(items, Item(o.kind = "item", o.bytes, o.part))
        /\ sstatus' = IF o.kind = "end" THEN "end" ELSE "run"
    /\ UNCHANGED << buf_buffer, filled, file_call >>
    /\ UNCHANGED << boundary, fields, pc, hint, segs, off, dest, bi, bout, bstatus, rout,
                    rstatus, req, last >>

(* ---------------------------------------------------------------------- *)
(* Rendering to a buffer: Multipart::into_bytes and Part::extend          *)
(* ---------------------------------------------------------------------- *)
\* Part::extend, loop body: what one chunk of the part's stream appends
extend_chunk(encoding, chunk) ==
    IF encoding = "Base64" THEN Base64Standard(chunk) ELSE chunk

\* Part::extend after write_header: the chunks of into_stream(None), each
\* appended as extend_chunk says, until the stream ends or fails
RECURSIVE ExtendAll(_, _, _, _, _)
ExtendAll(sg, fs, c, ps, lg) ==
    LET o == ChainPollNext(sg, fs, c, ps, lg)
    IN IF o.kind = "item"
       THEN extend_chunk(fs[1].encoding, o.bytes) \o ExtendAll(sg, fs, o.cur, o.pos, o.log)
       ELSE <<>>

\* Multipart::into_bytes of a Multipart that holds the one part p, whose
\* source does not fail
into_bytes_of(b, p) ==
    HeadBytes(b) \o header_bytes(p)
        \o ExtendAll(PartChain(p, 1, None), <<p>>, 1, <<0>>, <<>>)
        \o CRLF \o ClosingBoundary(b)

\* set_request without the else branch: a Content-Length the request came with
\* stays when the size is unknown
RequestHeaders_keeping(prior_length, b, fs) ==
    [content_type |-> Header(MultipartFormData \o b),
     body |-> "none",
     body_len |-> None,
     content_length |->
        IF size_hint(fs) # None THEN Header(to_string(size_hint(fs))) ELSE prior_length,
     given |-> TRUE,
     prior_length |-> prior_length]

\* Multipart::set_request / set_request_bytes: the headers set on the request
RequestHeaders(prior_length, b, fs) ==
    [content_type |-> Header(MultipartFormData \o b),
     body |-> "none",
     body_len |-> None,
     content_length |->
        IF size_hint(fs) # None THEN Header(to_string(size_hint(fs))) ELSE NoHeader,
     given |-> TRUE,
     prior_length |-> prior_length]

\* a set_body that does not look at the result of into_body_bytes: the buffer
\* filled so far becomes the body
set_body_bytes_unchecked(r, result, bytes) ==
    [r EXCEPT !.body = "bytes", !.body_len = Len(bytes)]

\* Multipart::set_request_bytes, `let body = self.into_body_bytes().await?;
\* req.set_body(body)`: an Err returns before set_body
set_body_bytes(r, result, bytes) ==
    IF result = "ok" THEN [r EXCEPT !.body = "bytes", !.body_len = Len(bytes)] ELSE r

\* Multipart::into_bytes up to the first await: the first boundary and, inside
\* Part::extend, the header of the first field; with no field, all of it
BytesBegin ==
    /\ pos' = ZeroPos
    /\ log' = <<>>
    /\ origin' = IF fields = <<>> THEN <<0>> ELSE <<0, 1>>
    /\ IF fields = <<>>
       THEN /\ bout' = CRLF \o ClosingBoundary(boundary)
            /\ bstatus' = "ok"
            /\ UNCHANGED << bi, segs, cur >>
       ELSE /\ bout' = HeadBytes(boundary) \o header_bytes(fields[1])
            /\ bstatus' = "run"
            /\ bi' = 1
            /\ segs' = PartChain(fields[1], 1, None)
            /\ cur' = 1

\* Multipart::into_bytes, on a Multipart built like the streamed one
into_bytes ==
    /\ pc = "stream"
    /\ sstatus = "end"
    /\ Len(segs) # 2
    /\ pc' = "bytes"
    /\ BytesBegin
    /\ UNCHANGED << buf_buffer, filled, file_call >>
    /\ UNCHANGED << boundary, fields, hint, off, dest, items, sstatus, rout, rstatus, req,
                    last >>

\* Multipart::set_request_bytes up to the first await of into_body_bytes
set_request_bytes ==
    /\ pc = "build"
    /\ pc' = "reqbytes"
    /\ BytesBegin
    /\ \E prior_length \in PriorLengths :
         LET r == RequestHeaders(prior_length, boundary, fields) IN
         req' = IF fields = <<>>
                THEN set_body_bytes(r, "ok", CRLF \o ClosingBoundary(boundary))
                ELSE r
    /\ last' = NoCall
    /\ UNCHANGED << buf_buffer, filled, file_call >>
    /\ UNCHANGED << boundary, fields, hint, off, dest, items, sstatus, rout, rstatus >>

\* Part::extend up to the first await, on a Part built like the streamed one:
\* write_header, then into_stream(None)
PartExtend ==
    /\ pc = "stream"
    /\ sstatus = "end"
    /\ Len(segs) = 2
    /\ pc' = "extend"
    /\ bout' = header_bytes(fields[1])
    /\ bstatus' = "run"
    /\ bi' = 1
    /\ segs' = PartChain(fields[1], 1, None)
    /\ cur' = 1
    /\ pos' = ZeroPos
    /\ log' = <<>>
    /\ origin' = <<1>>
    /\ UNCHANGED << buf_buffer, filled, file_call >>
    /\ UNCHANGED << boundary, fields, hint, off, dest, items, sstatus, rout, rstatus, req,
                    last >>

\* one stream.next().await of Part::extend and the code up to the next await
\* (in into_bytes: the following field's boundary and header, or the closing)
ExtendNext ==
    /\ pc \in {"bytes", "reqbytes", "extend"}
    /\ bstatus = "run"
    /\ LET o == ChainPollNext(segs, fields, cur, pos, log) IN
        /\ pos' = o.pos
        /\ log' = o.log
        /\ CASE o.kind = "item" ->
                  /\ bout' = bout \o extend_chunk(fields[bi].encoding, o.bytes)
                  /\ origin' = From(origin, o.part)
                  /\ cur' = o.cur
                  /\ UNCHANGED << bi, bstatus, segs, req >>
             [] o.kind = "err" ->
                  /\ bstatus' = "err"
                  /\ cur' = o.cur
                  /\ req' = IF pc = "reqbytes" THEN set_body_bytes(req, "err", bout) ELSE req
                  /\ UNCHANGED << bi, bout, origin, segs >>
             [] o.kind = "end" /\ pc = "extend" ->
                  /\ bstatus' = "ok"
                  /\ cur' = o.cur
                  /\ UNCHANGED << bi, bout, origin, segs, req >>
             [] o.kind = "end" /\ pc # "extend" /\ bi < Len(fields) ->
                  /\ bout' = bout \o HeadBytes(boundary) \o header_bytes(fields[bi + 1])
                  /\ origin' = From(From(origin, 0), bi + 1)
                  /\ bi' = bi + 1
                  /\ segs' = PartChain(fields[bi + 1], bi + 1, None)
                  /\ cur' = 1
                  /\ UNCHANGED << bstatus, req >>
             [] o.kind = "end" /\ pc # "extend" /\ bi >= Len(fields) ->
                  /\ bout' = bout \o CRLF \o ClosingBoundary(boundary)
                  /\ origin' = From(origin, 0)
                  /\ bstatus' = "ok"
                  /\ cur' = o.cur
                  /\ req' = IF pc = "reqbytes" THEN set_body_bytes(req, "ok", bout') ELSE req
                  /\ UNCHANGED << bi, segs >>
    /\ UNCHANGED << buf_buffer, filled, file_call >>
    /\ UNCHANGED << boundary, fields, pc, hint, off, dest, items, sstatus, rout, rstatus,
                    last >>

(* ---------------------------------------------------------------------- *)
(* Reading: into_reader, the request body, and the consumer's reads       *)
(* ---------------------------------------------------------------------- *)
ReaderBegin(chain) ==
    /\ segs' = chain
    /\ cur' = 1
    /\ off' = 0
    /\ pos' = ZeroPos
    /\ log' = <<>>
    /\ origin' = <<>>
    /\ rout' = <<>>
    /\ rstatus' = "run"
    /\ dest' \in DestSizes

\* Multipart::into_reader, on a Multipart built like the streamed one
into_reader ==
    /\ pc = "stream"
    /\ sstatus = "end"
    /\ Len(segs) # 2
    /\ pc' = "reader"
    /\ ReaderBegin(MultipartChain(fields, boundary, hint))
    /\ UNCHANGED << buf_buffer, filled, file_call >>
    /\ UNCHANGED << boundary, fields, hint, bi, bout, bstatus, items, sstatus, req, last >>

\* Part::into_reader, on a Part built like the streamed one
PartIntoReader ==
    /\ pc = "stream"
    /\ sstatus = "end"
    /\ Len(segs) = 2
    /\ pc' = "reader"
    /\ ReaderBegin(PartChain(fields[1], 1, hint))
    /\ UNCHANGED << buf_buffer, filled, file_call >>
    /\ UNCHANGED << boundary, fields, hint, bi, bout, bstatus, items, sstatus, req, last >>

\* Multipart::set_request: headers, then Body::from_reader(into_reader(None), hint)
set_request ==
    /\ pc = "build"
    /\ pc' = "body"
    /\ ReaderBegin(MultipartChain(fields, boundary, None))
    /\ \E prior_length \in PriorLengths :
         req' = [RequestHeaders(prior_length, boundary, fields) EXCEPT
                    !.body = "reader", !.body_len = size_hint(fields)]
    /\ last' = NoCall
    /\ UNCHANGED << buf_buffer, filled, file_call >>
    /\ UNCHANGED << boundary, fields, hint, bi, bout, bstatus, items, sstatus >>

\* the next byte the reader delivers comes from a payload
AtPayload ==
    /\ cur <= Len(segs)
    /\ \/ segs[cur].kind = "data"
       \/ /\ off = Len(segs[cur].bytes)
          /\ cur < Len(segs)
          /\ segs[cur + 1].kind = "data"

\* one poll_read of the consumer (a step of read_to_end): its buffer has
\* `dest` bytes where payload bytes are delivered and BigDest bytes elsewhere
ReaderPollRead ==
    /\ pc \in {"reader", "body"}
    /\ rstatus = "run"
    /\ LET d == IF AtPayload THEN dest ELSE BigDest IN
        /\ LET o == BodyPollRead(segs, fields, cur, off, pos, log, d,
                                 IF pc = "body" THEN req.body_len ELSE None,
                                 Len(rout)) IN
            /\ cur' = o.cur
            /\ off' = o.off
            /\ pos' = o.pos
            /\ log' = o.log
            /\ origin' = IF o.kind = "item" THEN From(origin, o.part) ELSE origin
            /\ rout' = rout \o o.bytes
            /\ rstatus' = CASE o.kind = "item" -> "run"
                            [] o.kind = "eof" -> "eof"
                            [] o.kind = "err" -> "err"
    /\ UNCHANGED << buf_buffer, filled, file_call >>
    /\ UNCHANGED << boundary, fields, pc, hint, segs, dest, bi, bout, bstatus, items,
                    sstatus, req, last >>

(* ---------------------------------------------------------------------- *)
(* Buffered reading: Part::into_reader used through AsyncBufRead          *)
(* ---------------------------------------------------------------------- *)
\* Part::into_reader of a Part whose Body is in memory, about to be driven
\* with poll_fill_buf and consume
PartIntoBufReader ==
    /\ pc = "build"
    /\ Len(fields) = 1
    /\ fields[1].src = Cursor
    /\ pc' = "bufread"
    /\ \E buf_size \in Hints :
          /\ hint' = buf_size
          /\ segs' = PartChain(fields[1], 1, buf_size)
    /\ cur' = 1
    /\ off' = 0
    /\ pos' = ZeroPos
    /\ log' = <<>>
    /\ rout' = <<>>
    /\ rstatus' = "run"
    /\ buf_buffer' = NoBuffer
    /\ filled' = <<>>
    /\ UNCHANGED file_call
    /\ UNCHANGED << boundary, fields, dest, origin, bi, bout, bstatus, items, sstatus,
                    req, last >>

\* Chain::poll_fill_buf: the header Cursor while it has bytes left, then the
\* ReaderStream; an empty slice from the ReaderStream is the end of input
PollFillBuf ==
    /\ pc = "bufread"
    /\ rstatus = "run"
    /\ LET header == CursorFillBuf(segs[1].bytes, off) IN
        IF cur = 1 /\ header # <<>>
        THEN /\ filled' = header
             /\ UNCHANGED << cur, pos, log, buf_buffer, rstatus >>
        ELSE LET r == ReaderStream_poll_fill_buf(segs[2], fields[1], pos[1],
                                                 buf_buffer) IN
             /\ cur' = 2
             /\ filled' = r.slice
             /\ buf_buffer' = r.buffer
             /\ pos' = [pos EXCEPT ![1] = @ + r.got]
             /\ log' = IF r.reads = 1 THEN Append(log, Read(1, r.want, r.got)) ELSE log
             /\ rstatus' = IF r.slice = <<>> THEN "eof" ELSE "run"
    /\ UNCHANGED file_call
    /\ UNCHANGED << boundary, fields, pc, hint, segs, off, dest, origin, bi, bout,
                    bstatus, items, sstatus, rout, req, last >>

\* Chain::consume(amt) with amt within the slice last returned: the header
\* Cursor's position moves, or ReaderStream::consume passes amt on to the
\* Cursor of the payload
Consume ==
    /\ pc = "bufread"
    /\ rstatus = "run"
    /\ \E amt \in {k \in 1..Len(filled) : k <= MaxDest \/ k = Len(filled)} :
          /\ rout' = rout \o SubSeq(filled, 1, amt)
          /\ filled' = SubSeq(filled, amt + 1, Len(filled))
          /\ IF cur = 1
             THEN off' = off + amt /\ pos' = pos
             ELSE pos' = [pos EXCEPT ![1] = @ + amt] /\ off' = off
    /\ UNCHANGED file_call
    /\ UNCHANGED << boundary, fields, pc, hint, segs, cur, dest, log, origin, bi, bout,
                    bstatus, items, sstatus, rstatus, req, last, buf_buffer >>

(* ---------------------------------------------------------------------- *)
(* The Multipart of lib.rs                                                *)
(* ---------------------------------------------------------------------- *)
\* enum Field; content_type is the String the caller gave, and the Body of a
\* File holds `data` behind a reader that answers as `src` says
Field_Text(name, value) == [value |-> value, name |-> name, kind |-> "Text"]
Field_File(name, filename, content_type, encoding, data, src) ==
    [name |-> name, encoding |-> encoding, content_type |-> content_type, data |-> data, src |-> src, filename |-> filename, kind |-> "File"]

\* to_body: what is written for a field before its payload; for a Text field
\* that is all of it
lib_field_bytes(b, f) ==
    IF f.kind = "Text"
    THEN HeadBytes(b) \o DispositionPrefix \o f.name \o Quote \o CRLF
            \o CRLF \o f.value \o CRLF
    ELSE HeadBytes(b) \o DispositionPrefix \o f.name \o Quote
            \o FilenamePrefix \o f.filename \o Quote \o CRLF
            \o ContentTypePrefix \o f.content_type \o CRLF
            \o (IF f.encoding # "NoEncoding"
                THEN TransferEncodingPrefix \o to_str(f.encoding) \o CRLF
                ELSE <<>>)
            \o CRLF

\* to_body: the payload of a File field, encoded as a whole
lib_encode(enc, b) ==
    CASE enc = "Base64" -> Base64NoPad(b)
      [] enc = "QuotedPrintable" -> QuotedPrintable(b)
      [] OTHER -> b

\* to_body from field i on, `data` being written so far, up to the next
\* `d.into_bytes().await` or, past the last field, the closing boundary
Written(at, data) == [data |-> data, at |-> at]
RECURSIVE to_body(_, _, _, _)
to_body(fs, b, i, data) ==
    IF i > Len(fs) THEN Written(i, data \o ClosingBoundary(b))
    ELSE IF fs[i].kind = "Text" THEN to_body(fs, b, i + 1, data \o lib_field_bytes(b, fs[i]))
    ELSE Written(i, data \o lib_field_bytes(b, fs[i]))

\* set_request after to_body: `req.set_body(body)` and
\* `req.insert_header("Content-Type", ..)`; Content-Length is left as it was
lib_set_body(r, b, data) ==
    [r EXCEPT !.content_type = Header(MultipartFormData \o b),
              !.body = "bytes",
              !.body_len = Len(data)]

\* what the actions of lib.rs leave alone
LibUnchanged ==
    /\ UNCHANGED << buf_buffer, filled >>
    /\ UNCHANGED << hint, segs, cur, off, dest, pos, log, origin, items, sstatus, rout,
                    rstatus >>

lib_push(field, result) ==
    /\ pc = "build"
    /\ Len(fields) < MaxParts
    /\ fields' = Append(fields, field)
    /\ last' = result
    /\ LibUnchanged
    /\ UNCHANGED << boundary, pc, bi, bout, bstatus, req, file_call >>

\* lib.rs Multipart::add_text
lib_add_text ==
    \E value \in {Payload(0), FullPayload} : lib_push(Field_Text(FieldName, value), NoCall)

\* lib.rs Multipart::add_file up to `AsyncFile::open(path).await`
lib_add_file ==
    /\ pc = "build"
    /\ Len(fields) < MaxParts
    /\ pc' = "lib_open"
    /\ \E encoding \in {"NoEncoding", "Base64"}, path \in {PathTxt, PathUpper, PathMissing} :
            file_call' = FileCall("add_file", path, encoding)
    /\ LibUnchanged
    /\ last' = Called("add_file", <<>>, "pending")
    /\ UNCHANGED << boundary, fields, bi, bout, bstatus, req >>

\* lib.rs Multipart::add_file from `AsyncFile::open(path).await?` on: the Err is
\* returned, or add_async_read pushes the File field over a BufReader of the
\* file, with the file name and the guessed content type of the path
lib_add_file_open ==
    /\ pc = "lib_open"
    /\ pc' = "build"
    /\ file_call' = NoFileCall
    /\ IF Exists(file_call.path)
       THEN \E behaviour \in FileReads :
               /\ fields' = Append(fields,
                                   Field_File(FieldName, path_filename(file_call.path),
                                              path_content_type(file_call.path).source,
                                              file_call.encoding, FullPayload, behaviour))
               /\ last' = Called("add_file", <<>>, "ok")
       ELSE /\ fields' = fields
            /\ last' = Called("add_file", <<>>, "io")
    /\ LibUnchanged
    /\ UNCHANGED << boundary, bi, bout, bstatus, req >>

\* lib.rs Multipart::add_async_read: the content type is kept as given
lib_add_async_read ==
    \E content_type \in {TextPlain} \cup InvalidMimes, encoding \in OptEncodings,
       behaviour \in {ShortReads, Failing} :
        lib_push(Field_File(FieldName, FileName, content_type, encoding, FullPayload,
                            behaviour),
                 Called("add_async_read", content_type, "ok"))

\* lib.rs Multipart::add_sync_read called as `call`: `data.read_to_end(&mut buffer)?`,
\* then the File field is pushed with the content type as given
lib_sync_read(call) ==
    \E content_type \in {TextPlain} \cup InvalidMimes, encoding \in {"NoEncoding", "Base64"},
       behaviour \in SyncReaders, kind \in ErrorKinds :
        LET buffer == read_to_end(FullPayload, behaviour, kind, 0, 1)
        IN /\ pc = "build"
           /\ Len(fields) < MaxParts
           /\ fields' = IF buffer.ok
                        THEN Append(fields,
                                    Field_File(FieldName, FileName, content_type, encoding,
                                               buffer.bytes, Cursor))
                        ELSE fields
           /\ last' = Called(call, content_type, IF buffer.ok THEN "ok" ELSE "io")
           /\ LibUnchanged
           /\ UNCHANGED << boundary, pc, bi, bout, bstatus, req, file_call >>

lib_add_sync_read == lib_sync_read("add_sync_read")

\* lib.rs Multipart::add_file_from_sync: add_sync_read of the File
add_file_from_sync == lib_sync_read("add_file_from_sync")

\* set_request once to_body has written `written`: at the end the body and the
\* Content-Type are set on the request r, before that `d.into_bytes()` of the
\* field written.at is awaited
lib_to_body_step(call, r, written) ==
    /\ bi' = written.at
    /\ bout' = written.data
    /\ IF written.at > Len(fields)
       THEN /\ pc' = "lib_done"
            /\ bstatus' = "ok"
            /\ req' = lib_set_body(r, boundary, written.data)
            /\ last' = Called(call, <<>>, "ok")
       ELSE /\ pc' = "lib_body"
            /\ bstatus' = "run"
            /\ req' = r
            /\ last' = Called(call, <<>>, "pending")
    /\ LibUnchanged
    /\ UNCHANGED << boundary, fields, file_call >>

\* a call of set_request on a request that came with or without Content-Length
lib_set_request_of(call) ==
    /\ pc = "build"
    /\ \E prior_length \in PriorLengths :
         lib_to_body_step(call,
                          [NoRequest EXCEPT !.content_length = prior_length,
                                            !.given = TRUE,
                                            !.prior_length = prior_length],
                          to_body(fields, boundary, 1, <<>>))

\* lib.rs Multipart::set_request
lib_set_request == lib_set_request_of("set_request")

\* RequestMultipartExt::set_multipart_body: `multipart.set_request(self)`
set_multipart_body == lib_set_request_of("set_multipart_body")

\* `let mut b = d.into_bytes().await?` of the File field bi returns: on Err
\* set_request returns it and the request stays as it came; otherwise the
\* payload is encoded and written and to_body goes on
lib_into_bytes ==
    /\ pc = "lib_body"
    /\ LET b == async_read_to_end(fields[bi].data, fields[bi].src, 0, 1)
       IN IF b.ok
          THEN lib_to_body_step(last.call, req,
                                to_body(fields, boundary, bi + 1,
                                        bout \o lib_encode(fields[bi].encoding, b.bytes)
                                             \o CRLF))
          ELSE /\ pc' = "lib_done"
               /\ bstatus' = "err"
               /\ last' = Called(last.call, <<>>, "io")
               /\ LibUnchanged
               /\ UNCHANGED << boundary, fields, bi, bout, req, file_call >>

(* ---------------------------------------------------------------------- *)
(* Specifications                                                         *)
(* ---------------------------------------------------------------------- *)
Next ==
    \/ add_text
    \/ add_enc_text
    \/ add_text_mime
    \/ add_file_bytes
    \/ add_file
    \/ file_async_open
    \/ file_async_metadata
    \/ add_async_read
    \/ add_sync_read
    \/ into_stream
    \/ StreamPollNext
    \/ into_reader
    \/ into_bytes
    \/ set_request_bytes
    \/ ExtendNext
    \/ set_request
    \/ ReaderPollRead

Spec == Init /\ [][Next]_vars

\* the Multipart as the tests of multipart.rs set it up
SpecTest == InitTest /\ [][Next]_vars

NextPart ==
    \/ PartText
    \/ PartFileRaw
    \/ PartFileRawAsync
    \/ PartFileAsync
    \/ file_async_open
    \/ file_async_metadata
    \/ PartIntoStream
    \/ StreamPollNext
    \/ PartIntoReader
    \/ PartIntoBufReader
    \/ PollFillBuf
    \/ Consume
    \/ PartExtend
    \/ ExtendNext
    \/ ReaderPollRead

SpecPart == InitPart /\ [][NextPart]_vars

NextLib ==
    \/ lib_add_text
    \/ lib_add_file
    \/ lib_add_file_open
    \/ lib_add_async_read
    \/ lib_add_sync_read
    \/ add_file_from_sync
    \/ lib_set_request
    \/ set_multipart_body
    \/ lib_into_bytes

\* the Multipart of lib.rs, from Multipart::new()
SpecLib == Init /\ [][NextLib]_vars

(* ---------------------------------------------------------------------- *)
(* Properties                                                             *)
(* ---------------------------------------------------------------------- *)
\* the bytes of the items the stream has yielded, concatenated
StreamBytes == Flatten([k \in 1..Len(items) |-> items[k].bytes])
\* the stream has yielded no error item
StreamOk == \A k \in DOMAIN items : items[k].ok
\* a materialization into a buffer has completed
Rendered == pc \in {"bytes", "reqbytes"} /\ bstatus = "ok"

\* the length the part knows was taken from the payload it delivers: its file
\* did not change between `metadata` and the reads
SteadyLength(p) ==
    \/ p.len \in {None, Len(p.data)}
    \/ p.encoding = "Base64" /\ p.len = (Len(p.data) * 4 + 2) \div 3
SteadyFiles == \A i \in DOMAIN fields : SteadyLength(fields[i])

\* C1: for a Multipart with a given chunk-size hint, the concatenation of the
\* chunks of into_stream equals the bytes into_reader delivers up to EOF, when
\* no source fails and no file changes under the Multipart.
C1_StreamEqualsReader ==
    (pc = "reader" /\ rstatus = "eof" /\ sstatus = "end" /\ StreamOk /\ SteadyFiles)
        => StreamBytes = rout

\* C2: for a Multipart with at least one part, the bytes into_bytes returns
\* equal the concatenation of the chunks of into_stream on a Multipart built
\* the same way, when no source fails.
C2_BytesEqualsStream ==
    (pc = "bytes" /\ fields # <<>> /\ bstatus = "ok" /\ sstatus = "end" /\ StreamOk)
        => bout = StreamBytes

\* the parts C3 speaks of: no encoding, or Base64
C3_Encodings == \A i \in DOMAIN fields : fields[i].encoding \in {"NoEncoding", "Base64"}

\* C3: when size_hint() is Some(n), n is the number of bytes rendering to a
\* buffer produces: Part::extend for a Part, into_bytes for a Multipart, the
\* parts having no encoding or Base64 and no file having changed under them.
C3_SizeHintIsRenderedLength ==
    /\ (pc = "extend" /\ bstatus = "ok" /\ C3_Encodings /\ SteadyFiles
            /\ part_size_hint(fields[1]) # None)
          => part_size_hint(fields[1]) = Len(bout)
    /\ (Rendered /\ C3_Encodings /\ SteadyFiles /\ size_hint(fields) # None)
          => size_hint(fields) = Len(bout)

\* C4: streaming a Base64 part with a hint other than 0, every slice of the payload that is encoded on
\* its own, except possibly the last one, has a length that is a multiple of 3,
\* whatever the source returns per read; so the chunks after the header,
\* concatenated, are the unpadded base64 text of the whole payload.
C4_Base64SlicesAligned ==
    (pc = "stream" /\ Len(fields) = 1 /\ fields[1].encoding = "Base64" /\ hint # 0) =>
        /\ \A k \in DOMAIN log :
              (log[k].got > 0 /\ \E m \in DOMAIN log : m > k /\ log[m].got > 0)
                  => log[k].got % 3 = 0
        /\ (sstatus = "end" /\ StreamOk)
              => StreamBytes = header_bytes(fields[1]) \o Base64NoPad(fields[1].data)

\* the layout C5 describes: per part the boundary line, the header block, the
\* encoded payload and CRLF; then the closing boundary line
C5_Layout(fs, b) ==
    Flatten([i \in 1..Len(fs) |->
                HeadBytes(b) \o header_bytes(fs[i]) \o encode(fs[i].encoding, fs[i].data)
                    \o CRLF])
      \o ClosingBoundary(b)

\* C5: into_bytes of a Multipart with parts returns, for each part in order,
\* "--boundary\r\n", the part's header block once, its encoded payload once and
\* "\r\n", and after the last part "--boundary--\r\n".
C5_BytesLayout == (Rendered /\ fields # <<>>) => bout = C5_Layout(fields, boundary)

\* C6: after set_request or set_request_bytes succeeds, Content-Type is
\* "multipart/form-data; boundary=<boundary>", and the request has a
\* Content-Length header exactly when size_hint() is Some: with None, a
\* Content-Length the request had before is removed.
C6_RequestHeaders ==
    req.body # "none" =>
        /\ req.content_type = Header(MultipartFormData \o boundary)
        /\ req.content_length.some <=> size_hint(fields) # None
        /\ size_hint(fields) = None => req.content_length = NoHeader

\* C6 at work: a request that came with a Content-Length got a body of unknown
\* size, and the header is gone
C6_Witness ==
    /\ req.body # "none"
    /\ req.prior_length.some
    /\ size_hint(fields) = None
    /\ ~ req.content_length.some

\* C7: when set_request has set a Content-Length, its value is the number of
\* bytes the request body delivers up to EOF, for any number of parts (zero
\* too) none of which is quoted-printable or was read from a file that changed.
C7_ContentLengthIsBodyLength ==
    (pc = "body" /\ rstatus = "eof" /\ req.content_length.some /\ SteadyFiles
        /\ \A i \in DOMAIN fields : fields[i].encoding # "QuotedPrintable")
        => req.content_length.v = to_string(Len(rout))

\* C8: in every materialization the output holds the parts in insertion order,
\* each part's bytes in one piece, and a source is read only after the source
\* of every earlier part has answered a read with 0 bytes.
C8_InsertionOrder ==
    /\ \A a, b \in DOMAIN origin :
          (a < b /\ origin[a] > 0 /\ origin[b] > 0) => origin[a] < origin[b]
    /\ \A k \in DOMAIN log : \A i \in 1..(log[k].part - 1) :
          \E m \in 1..(k - 1) : log[m].part = i /\ log[m].got = 0

\* C8 at work: a reader over two parts has reached EOF having delivered bytes
\* of both and read payload from the second source
C8_Witness ==
    /\ pc = "reader"
    /\ rstatus = "eof"
    /\ Len(fields) = 2
    /\ origin = <<0, 1, 0, 2, 0>>
    /\ \E k \in DOMAIN log : log[k].part = 2 /\ log[k].got > 0
    /\ \E k \in DOMAIN log : log[k].part = 1 /\ log[k].got > 0

\* C9: for a single Part, whatever its encoding, whatever hint other than 0
\* and whatever the size of the buffers the consumer reads into, the
\* concatenation of the chunks of into_stream equals the bytes into_reader
\* delivers up to EOF.
C9_PartStreamEqualsReader ==
    (pc = "reader" /\ Len(fields) = 1 /\ Len(segs) = 2 /\ hint # 0
        /\ rstatus = "eof" /\ sstatus = "end" /\ StreamOk)
        => StreamBytes = rout

\* C10: a read error of a source is yielded as an error item, and the stream
\* yields nothing after it.
C10_ErrorEndsStream ==
    \A k \in DOMAIN items : ~ items[k].ok => k = Len(items)

\* C11 as the specification states it: when a read of a source fails while
\* set_request_bytes renders or while the body installed by set_request is read,
\* no non-empty prefix of the body has become the request's body or reached the
\* body's consumer.
C11_NoPartialBody ==
    /\ (pc = "reqbytes" /\ bstatus = "err") => req.body = "none"
    /\ (pc = "body" /\ rstatus = "err") => rout = <<>>

\* C11, amended: when a read fails during set_request_bytes the request gets
\* no body (its headers are already set), and a body is only ever set by a
\* render that succeeded; the body installed by set_request is streamed, and a
\* consumer has received at least the opening boundary line before its read
\* returns the error.
C11_PartialOnlyWhenStreamed ==
    /\ (pc = "reqbytes" /\ bstatus = "err")
          => (req.body = "none" /\ req.content_type.some)
    /\ (pc = "reqbytes" /\ req.body # "none") => (bstatus = "ok" /\ req.body_len = Len(bout))
    /\ (pc = "body" /\ rstatus = "err")
          => (Len(rout) >= Len(HeadBytes(boundary))
              /\ SubSeq(rout, 1, Len(HeadBytes(boundary))) = HeadBytes(boundary))

\* C11 at work: set_request_bytes had rendered part of the body when a read
\* failed, and the request has no body
C11_Witness ==
    /\ pc = "reqbytes"
    /\ bstatus = "err"
    /\ Len(bout) > Len(HeadBytes(boundary))
    /\ req.body = "none"

\* the add_* calls that take a mime string
MimeCalls == {"add_text_mime", "add_file_bytes", "add_async_read", "add_sync_read"}

\* C12: an add_* call that is given a mime string that does not parse returns
\* an error and leaves the parts and the boundary as they were; given one that
\* parses it pushes a part with the parsed content type and returns Ok, unless
\* add_sync_read could not read its reader, which is no content-type error; and
\* every part a render meets holds a content type that parses to itself, so no
\* content-type error is left for a render.
C12_MimeErrorAtAdd ==
    /\ [][ last'.call \in MimeCalls =>
              /\ ~parse(last'.mime).ok =>
                    (last'.res # "ok" /\ fields' = fields /\ boundary' = boundary)
              /\ parse(last'.mime).ok =>
                    \/ /\ last'.res = "ok"
                       /\ Len(fields') = Len(fields) + 1
                       /\ fields'[Len(fields')].content_type = parse(last'.mime).mime
                    \/ /\ last'.call = "add_sync_read"
                       /\ last'.res = "io"
                       /\ fields' = fields ]_vars
    /\ [](\A i \in DOMAIN fields :
            /\ parse(fields[i].content_type.source).ok
            /\ parse(fields[i].content_type.source).mime = fields[i].content_type)
    /\ [](last.res = "err" => (pc = "build" /\ ~parse(last.mime).ok))

\* C12 at work: add_text_mime was given a string that does not parse, on a
\* Multipart that holds a part
C12_Witness ==
    /\ last.call = "add_text_mime"
    /\ last.mime \in InvalidMimes
    /\ last.res = "err"
    /\ Len(fields) = 1

\* C13: a Multipart with no parts renders to nothing in both streaming forms:
\* the first poll of its stream ends the stream without an item, the first read
\* of its reader returns end of input, and so both deliver the same empty bytes.
C13_EmptyMultipart ==
    /\ [][ (fields = <<>> /\ pc = "stream" /\ sstatus = "run")
              => (sstatus' = "end" /\ items' = <<>>) ]_vars
    /\ [][ (fields = <<>> /\ pc = "reader" /\ rstatus = "run")
              => (rstatus' = "eof" /\ rout' = <<>>) ]_vars
    /\ []((fields = <<>> /\ pc \in {"stream", "reader"})
              => (items = <<>> /\ rout = <<>> /\ StreamBytes = rout))

\* C13 at work: the stream of an empty Multipart has ended and its reader has
\* reached end of input
C13_Witness ==
    /\ fields = <<>>
    /\ pc = "reader"
    /\ sstatus = "end"
    /\ rstatus = "eof"
    /\ items = <<>>
    /\ rout = <<>>

\* a part that add_file built: its filename is the last component of the path
FromPath(p) == p.file_data = SomeFile(path_filename(PathTxt))
\* the part add_file_bytes builds from the same content in memory, with the
\* name, filename, content type and encoding of p
InMemoryTwin(p) == file_raw(p.name, p.file_data.v, p.content_type, p.encoding, p.data)

\* C14: a Multipart whose single part was loaded from a file path renders,
\* with into_bytes(), to the bytes of a Multipart with the same boundary whose
\* single part was built in memory from the same content with the same name,
\* content type and encoding (and here the same filename), the file holding
\* that content from before add_file to the end of the render.
C14_FileEqualsMemory ==
    (Rendered /\ Len(fields) = 1 /\ FromPath(fields[1]) /\ SteadyFiles)
        => bout = into_bytes_of(boundary, InMemoryTwin(fields[1]))

\* into_bytes_of computes what into_bytes leaves in the buffer
IntoBytesOfAgrees ==
    (Rendered /\ Len(fields) = 1 /\ fields[1].src.fail_at = 0)
        => bout = into_bytes_of(boundary, fields[1])

\* the sum, over the parts from i on, of the part's size hint plus sep
RECURSIVE SumHints(_, _, _)
SumHints(fs, i, sep) ==
    IF i > Len(fs) THEN 0 ELSE part_size_hint(fs[i]) + sep + SumHints(fs, i + 1, sep)
\* opening chunk, each part's hint with one separator, closing chunk, the
\* three chunks being those written for the boundary b
FramedSize(fs, b) ==
    IF \E i \in DOMAIN fs : part_size_hint(fs[i]) = None THEN None
    ELSE Len(HeadBytes(b)) + SumHints(fs, 1, Len(Separator(b))) + Len(Tail_(b))
\* the Content-Length a request is given for the size sz
LengthHeader(sz) == IF sz # None THEN Header(to_string(sz)) ELSE NoHeader

\* C15, as stated: Multipart::size_hint() is Some exactly when every part's
\* size hint is Some, and is then the length of the opening chunk, plus each
\* part's hint and the length of one separator, plus the length of the closing
\* chunk, the three chunks being those written for this Multipart's boundary.
C15_SizeHintOfActualBoundary ==
    /\ fields # <<>> => size_hint(fields) = FramedSize(fields, boundary)
    /\ req.given => req.content_length = LengthHeader(FramedSize(fields, boundary))

\* C16: Part::size_hint() is None exactly when the length of the payload is
\* unknown; otherwise it is header_len plus the payload length, which for a raw
\* payload of n bytes is n without an encoding, with an identity encoding and
\* with QuotedPrintable, and with Base64 is the inflated length 4n/3 (more
\* than n from 3 bytes on), for parts built in memory and from a path alike,
\* the file at that path holding the n bytes throughout.
C16_PartSizeHint ==
    \A i \in DOMAIN fields :
        LET p == fields[i]
            n == Len(p.data)
        IN /\ (part_size_hint(p) = None) <=> (p.len = None)
           /\ (p.len # None /\ p.encoding # "Base64" /\ SteadyLength(p))
                 => part_size_hint(p) = header_len(p) + n
           /\ (p.len # None /\ p.encoding = "Base64" /\ n >= 3 /\ SteadyLength(p))
                 => (/\ part_size_hint(p) = header_len(p) + (4 * n) \div 3
                     /\ part_size_hint(p) > header_len(p) + n)

\* the place of the first CRLF in s, 0 when there is none
FirstCRLF(s) ==
    IF \E i \in 1..(Len(s) - 1) : s[i] = 13 /\ s[i + 1] = 10
    THEN CHOOSE i \in 1..(Len(s) - 1) :
            /\ s[i] = 13 /\ s[i + 1] = 10
            /\ \A j \in 1..(i - 1) : ~(s[j] = 13 /\ s[j + 1] = 10)
    ELSE 0
\* the lines of s without their CRLF; what follows the last CRLF, if anything,
\* comes last with the byte 0 appended
RECURSIVE LinesOf(_)
LinesOf(s) ==
    IF s = <<>> THEN <<>>
    ELSE IF FirstCRLF(s) = 0 THEN <<s \o <<0>>>>
    ELSE <<SubSeq(s, 1, FirstCRLF(s) - 1)>> \o LinesOf(SubSeq(s, FirstCRLF(s) + 2, Len(s)))
\* s begins with pre
StartsWith(s, pre) == Len(s) >= Len(pre) /\ SubSeq(s, 1, Len(pre)) = pre
\* the wire names 7bit, 8bit, base64 and quoted-printable
WireName(enc) ==
    CASE enc = "SevenBit" -> <<55, 98, 105, 116>>
      [] enc = "EightBit" -> <<56, 98, 105, 116>>
      [] enc = "Base64" -> <<98, 97, 115, 101, 54, 52>>
      [] enc = "QuotedPrintable" ->
            <<113, 117, 111, 116, 101, 100, 45, 112, 114, 105, 110, 116, 97,
              98, 108, 101>>
\* the constructors of a file part
FileConstructors == {"file_raw", "file_raw_async", "file_async"}
\* the header chunk a part's stream has yielded
HeaderYielded == pc = "stream" /\ Len(segs) = 2 /\ items # <<>> /\ items[1].ok

\* C17: the header block a part emits is, in this order, the line
\* Content-Disposition: form-data; name="<name>", with ; filename="<filename>"
\* exactly when a file constructor made the part; a Content-Type line; a
\* Content-Transfer-Encoding line with the wire name of the encoding exactly
\* when the part has an encoding; and an empty line; each line ends with CRLF.
C17_HeaderLayout ==
    HeaderYielded =>
        LET p == fields[1]
            lines == LinesOf(items[1].bytes)
            disposition == DispositionPrefix \o p.name \o Quote
            n == IF p.encoding # "NoEncoding" THEN 4 ELSE 3
        IN /\ Len(lines) = n
           /\ lines[1] = IF last.call \in FileConstructors
                         THEN disposition \o FilenamePrefix \o p.file_data.v \o Quote
                         ELSE disposition
           /\ last.call \in FileConstructors \/ last.call = "text"
           /\ StartsWith(lines[2], ContentTypePrefix)
           /\ SubSeq(lines[2], Len(ContentTypePrefix) + 1, Len(lines[2]))
                 \in {TextPlain, OctetStream} \cup {entry[2] : entry \in MIME_TYPES}
           /\ p.encoding # "NoEncoding"
                 => lines[3] = TransferEncodingPrefix \o WireName(p.encoding)
           /\ lines[n] = <<>>

\* C17 at work: the stream of a part built from a path, with an encoding, has
\* yielded its header chunk
C17_Witness ==
    /\ HeaderYielded
    /\ last.call = "file_async"
    /\ fields[1].encoding = "QuotedPrintable"
    /\ Len(LinesOf(items[1].bytes)) = 4

\* C18: for every part, header_len() is the number of bytes of the header
\* block the part emits.
C18_HeaderLenIsHeaderLength ==
    HeaderYielded =>
        /\ items[1].bytes = header_bytes(fields[1])
        /\ header_len(fields[1]) = Len(items[1].bytes)

\* the stream of a Multipart that holds parts has ended without an error item
StreamDone ==
    pc = "stream" /\ Len(segs) # 2 /\ fields # <<>> /\ sstatus = "end" /\ StreamOk
\* the bytes of the items from k + 1 on that come from the same part as item k
RECURSIVE RestOfRun(_, _)
RestOfRun(its, k) ==
    IF k + 1 > Len(its) \/ its[k + 1].part # its[k].part THEN <<>>
    ELSE its[k + 1].bytes \o RestOfRun(its, k + 1)

\* s is a prefix of t
IsPrefix(s, t) == Len(s) <= Len(t) /\ SubSeq(t, 1, Len(s)) = s

\* C19: the stream of a Multipart with n >= 1 parts yields one opening chunk,
\* the chunks of part 1, then for each later part one separator chunk and the
\* chunks of that part, and last one closing chunk; the chunks of a part start
\* with one chunk that holds exactly its header bytes, and its payload chunks
\* follow: bytes of its payload from the start on, and all of them when the
\* length the part knows, if any, is the length of the payload.
C19_StreamOrder ==
    StreamDone =>
        LET n == Len(fields)
            m == Len(items)
        IN /\ origin = [k \in 1..(2 * n + 1) |-> IF k % 2 = 1 THEN 0 ELSE k \div 2]
           /\ Cardinality({k \in 1..m : items[k].part = 0}) = n + 1
           /\ items[1].bytes = HeadBytes(boundary)
           /\ items[m].bytes = Tail_(boundary)
           /\ \A k \in 1..(m - 1) :
                 items[k].part = 0 =>
                    /\ k > 1 => items[k].bytes = Separator(boundary)
                    /\ items[k + 1].part # 0
                    /\ items[k + 1].bytes = header_bytes(fields[items[k + 1].part])
                    /\ fields[items[k + 1].part].encoding = "NoEncoding"
                          => LET p == fields[items[k + 1].part]
                             IN /\ IsPrefix(RestOfRun(items, k + 1), p.data)
                                /\ p.len \in {None, Len(p.data)}
                                      => RestOfRun(items, k + 1) = p.data

\* C19 at work: the stream of a Multipart of two parts has ended after the
\* opening chunk, two parts of a header chunk and payload chunks each, the
\* separator between them and the closing chunk
C19_Witness ==
    /\ StreamDone
    /\ Len(fields) = 2
    /\ Len(items) >= 8
    /\ items[Len(items)].bytes = Tail_(boundary)

\* the stream of a single part, asked for chunks of a size other than 0, has
\* ended without an error item
PartStreamDone ==
    pc = "stream" /\ Len(segs) = 2 /\ hint # 0 /\ sstatus = "end" /\ StreamOk
\* the bytes of the payload chunks: the items after the header chunk
PayloadChunks == Flatten([k \in 1..(Len(items) - 1) |-> items[k + 1].bytes])

\* C20: for a payload streamed with QuotedPrintable, 7bit, 8bit or no
\* encoding, the concatenation of the emitted chunks is the encoding of the
\* whole payload, for every chunk size and every way the source splits the
\* payload into reads.
C20_ChunksEncodeWhole ==
    (PartStreamDone /\ fields[1].encoding # "Base64")
        => PayloadChunks = (IF fields[1].encoding = "NoEncoding" THEN fields[1].data
                            ELSE encode(fields[1].encoding, fields[1].data))

\* the same for the encodings that leave the bytes as they are
IdentityChunksEncodeWhole ==
    (PartStreamDone /\ fields[1].encoding \in {"NoEncoding", "SevenBit", "EightBit"})
        => PayloadChunks = fields[1].data

\* the size a Base64 ReaderStream of the part under study reads by: the
\* caller's hint, or the default (the Body's length, CHUNK_SIZE when it has
\* none), rounded up to a multiple of 3
AlignedSize ==
    LET b == IF hint # None THEN hint
             ELSE IF fields[1].len # None THEN fields[1].len ELSE CHUNK_SIZE
    IN 3 * ((b + 2) \div 3)
\* a single Base64 part is being driven in the exposure of the given name
Base64Driven(exposure) ==
    pc = exposure /\ Len(segs) = 2 /\ fields[1].encoding = "Base64"

\* C21: every read a Base64 ReaderStream issues to its source, as a stream
\* (poll_next) and as a reader (poll_read, poll_fill_buf), at every step,
\* asks for a multiple of 3 bytes: the size hint or the default, rounded up.
C21_Base64ReadsAligned ==
    (Base64Driven("stream") \/ Base64Driven("reader") \/ Base64Driven("bufread"))
        => \A k \in DOMAIN log : log[k].want % 3 = 0 /\ log[k].want = AlignedSize

\* the same for the stream exposure alone
StreamReadsAligned ==
    Base64Driven("stream") => \A k \in DOMAIN log : log[k].want = AlignedSize
\* poll_fill_buf asks for an unaligned number of bytes
FillBufUnaligned ==
    Base64Driven("bufread") /\ \E k \in DOMAIN log : log[k].want % 3 # 0
\* poll_read asks for an unaligned number of bytes
PollReadUnaligned ==
    Base64Driven("reader") /\ \E k \in DOMAIN log : log[k].want % 3 # 0

\* a single part is being read through poll_fill_buf and consume
BufReading == pc = "bufread" /\ Len(segs) = 2

\* C22: in the buffered-reader exposure of a ReaderStream with an encoding,
\* over any sequence of poll_fill_buf and consume calls the bytes consumed are
\* a prefix of the encoded payload (here behind the part's header): no byte is
\* skipped and none is delivered twice.  Stated for 7bit and 8bit, whose
\* encoded payload is the payload however the reads fall.
C22_ConsumedIsPrefix ==
    (BufReading /\ fields[1].encoding \in {"SevenBit", "EightBit"})
        => IsPrefix(rout, header_bytes(fields[1])
                            \o encode(fields[1].encoding, fields[1].data))

\* without an encoding the bytes consumed are a prefix of header and payload,
\* and all of them at the end of input
PlainConsumedIsPrefix ==
    (BufReading /\ fields[1].encoding = "NoEncoding")
        => /\ IsPrefix(rout, header_bytes(fields[1]) \o fields[1].data)
           /\ (rstatus = "eof" /\ filled = <<>> /\ hint # 0)
                => (Len(rout) = Len(header_bytes(fields[1]) \o fields[1].data)
                    \/ fields[1].data = <<>>)

====
